---- MODULE Spec2Model ----
(***************************************************************************)
(* A model of the JupyterLab accessibility plugin in src/src/index.ts:     *)
(* the scanner (analyzeCellsAccessibility), the backend adapter            *)
(* (getFixSuggestions), the per-issue widget (CellIssueWidget) and the     *)
(* side panel (A11yMainPanel), run on the browser's single-threaded event  *)
(* loop: every action below is one task of that loop, from the event that  *)
(* starts it to the next await that really suspends.                       *)
(***************************************************************************)
EXTENDS Integers, Sequences, FiniteSets, TLC

(***************************************************************************)
(* JavaScript values.  Every value has the same three fields so that any   *)
(* two of them can be compared.                                            *)
(***************************************************************************)
Str(s) == [t |-> "string", s |-> s, n |-> 0]
Num(k) == [t |-> "number", s |-> "", n |-> k]
JNull == [t |-> "null", s |-> "", n |-> 0]
Undefined == [t |-> "undefined", s |-> "", n |-> 0]

IsString(v) == v.t = "string"

\* JavaScript's ToBoolean, as used by `x || ''` and `!x`.
Truthy(v) ==
    CASE v.t = "string" -> v.s /= ""
      [] v.t = "number" -> v.n /= 0
      [] OTHER -> FALSE

\* `x || ''`
OrEmpty(v) == IF Truthy(v) THEN v ELSE Str("")

(***************************************************************************)
(* The text-completion service's reply.                                    *)
(*                                                                         *)
(* The inner payload is the value JSON.parse gives for the model's answer: *)
(* null, a scalar, or an object with the two fields (Undefined: absent).   *)
(***************************************************************************)
EccVals == {Undefined, Str(""), Str("fix"), JNull, Num(0), Num(42)}
ExplVals == {Undefined, Str("why"), Num(7)}

Payload(k, c, e) == [kind |-> k, exampleCellContent |-> c, explanation |-> e]
NoPayload == Payload("none", Undefined, Undefined)
Payloads ==
    {Payload("null", Undefined, Undefined), Payload("scalar", Undefined, Undefined)}
    \cup {Payload("object", c, e) : c \in EccVals, e \in ExplVals}

(***************************************************************************)
(* The `response` string is a sequence of chunks: the two fence markers,   *)
(* white space, prose, and the text of one JSON value.  No regular         *)
(* expression of the code matches across two chunks of this alphabet.      *)
(***************************************************************************)
Chunk(c, p) == [c |-> c, val |-> p]
FenceOpen == Chunk("fenceOpen", NoPayload)   \* the text matched by /```json\n/
FenceClose == Chunk("fenceClose", NoPayload) \* the text matched by /\n```/
Space == Chunk("space", NoPayload)
Prose == Chunk("prose", NoPayload)
JsonText(p) == Chunk("json", p)
Chunks == {FenceOpen, FenceClose, Space, Prose} \cup {JsonText(p) : p \in Payloads}

MaxChunks == 3

SeqsUpTo(S, k) == UNION {[1..m -> S] : m \in 0..k}

\* String.prototype.replace with a non-global pattern: the first match goes.
RECURSIVE ReplaceFirst(_, _)
ReplaceFirst(s, c) ==
    IF s = <<>> THEN <<>>
    ELSE IF Head(s) = c THEN Tail(s)
    ELSE <<Head(s)>> \o ReplaceFirst(Tail(s), c)

RECURSIVE TrimLeft(_)
TrimLeft(s) == IF s /= <<>> /\ Head(s) = Space THEN TrimLeft(Tail(s)) ELSE s

RECURSIVE TrimRight(_)
TrimRight(s) ==
    IF s /= <<>> /\ s[Len(s)] = Space THEN TrimRight(SubSeq(s, 1, Len(s) - 1)) ELSE s

\* String.prototype.trim
Trim(s) == TrimRight(TrimLeft(s))

\* A fence stripping that forgets the closing marker.
StripFenceOpenOnly(s) == Trim(ReplaceFirst(s, FenceOpen))

\* The fence stripping of the inner try block.
StripFence(s) == Trim(ReplaceFirst(ReplaceFirst(s, FenceOpen), FenceClose))

\* JSON.parse of the stripped text: a value when the text is one JSON value
\* (white space around it allowed), a SyntaxError otherwise.
JSONParses(s) == LET t == Trim(s) IN Len(t) = 1 /\ t[1].c = "json"
JSONParse(s) == Trim(s)[1].val

(***************************************************************************)
(* The outer body (response.text()) parsed by the first JSON.parse:        *)
(* "garbage" does not parse, "null" parses to null, "object" parses to an  *)
(* object whose `response` is absent, a number, or a string of chunks.     *)
(***************************************************************************)
Body(k, rt, ch) == [kind |-> k, rtype |-> rt, chunks |-> ch]
Bodies ==
    {Body("garbage", "undefined", <<>>), Body("null", "undefined", <<>>),
     Body("object", "undefined", <<>>), Body("object", "number", <<>>)}
    \cup {Body("object", "string", ch) : ch \in SeqsUpTo(Chunks, MaxChunks)}

\* What fetch and response.text() do: fetch rejects ("error") or resolves with
\* a status; text() resolves with the body or rejects.  The body of a reply
\* whose status is no success is never read (line 104 throws before line 107),
\* so those replies carry the short bodies only.
Outcome(net, st, tx, b) == [net |-> net, status |-> st, textOk |-> tx, body |-> b]
Statuses == {200, 500}
ShortBodies == {b \in Bodies : Len(b.chunks) <= 1}
HttpOutcomes ==
    {Outcome("error", 0, FALSE, Body("garbage", "undefined", <<>>))}
    \cup {Outcome("response", st, FALSE, Body("garbage", "undefined", <<>>)) :
              st \in Statuses}
    \cup {Outcome("response", 200, TRUE, b) : b \in Bodies}
    \cup {Outcome("response", 500, TRUE, b) : b \in ShortBodies}

\* response.ok
ResponseOk(o) == o.status >= 200 /\ o.status <= 299

Fulfilled(v) == [state |-> "fulfilled", value |-> v]
Rejected == [state |-> "rejected", value |-> <<Undefined, Undefined>>]
NotSettled == [state |-> "pending", value |-> <<Undefined, Undefined>>]

\* The inner try block throws: `responseObj.response` on null, `.replace` on
\* a value that is no string, the second JSON.parse, a field read on null.
InnerThrows(b) ==
    \/ b.kind = "null"
    \/ b.rtype /= "string"
    \/ ~JSONParses(StripFence(b.chunks))
    \/ JSONParse(StripFence(b.chunks)).kind = "null"

InnerCatch == <<Str("Invalid response format"), Str("")>>

InnerTry(b) ==
    IF InnerThrows(b) THEN InnerCatch
    ELSE LET result == JSONParse(StripFence(b.chunks))
         IN <<OrEmpty(result.exampleCellContent), OrEmpty(result.explanation)>>

\* The outer try block throws before the inner one is entered.
OuterThrows(o) ==
    \/ o.net = "error"
    \/ ~ResponseOk(o)
    \/ ~o.textOk
    \/ o.body.kind = "garbage"

OuterCatch == <<Str("Error analyzing accessibility issues"), Str("")>>

\* The promise getFixSuggestions returns, settled.
getFixSuggestions(o) ==
    IF OuterThrows(o) THEN Fulfilled(OuterCatch) ELSE Fulfilled(InnerTry(o.body))

(***************************************************************************)
(* The document collaborator: each notebook is the live array              *)
(* panel.content.widgets of cells.  A cell has an identity (id), a model   *)
(* (hasModel), a type, a rendered output and a source text.  The output is *)
(* "absent" (no output container in the cell's node), "blank" (a container *)
(* whose innerHTML is white space) or a rendering with content; it is what *)
(* the host rendered from the source text renderedFrom.  The host renders  *)
(* in tasks of its own (a markdown cell after an update request, a code    *)
(* cell when it is executed), never inside a call of setSource.            *)
(***************************************************************************)
Notebooks == {"nb1", "nb2"}
NoNotebook == "null"

CellTypes == {"markdown", "code", "raw"}
Outputs == {"absent", "blank", "clean", "img", "imgcc"}

Cell(id, m, ty, out, src) ==
    [id |-> id, hasModel |-> m, type |-> ty, output |-> out, source |-> src,
     renderedFrom |-> src]

\* axe.run(...).violations for a rendering, in the oracle's reporting order.
Oracle(html) ==
    CASE html = "img" -> <<"image-alt">>
      [] html = "imgcc" -> <<"image-alt", "color-contrast">>
      [] OTHER -> <<>>

\* What axe.run may report for a whole cell node copied into a detached div.
RevalidationResults == {<<>>, <<"image-alt">>}

\* `output` after the querySelector calls is set and, copied into tempDiv,
\* has innerHTML.trim() non-empty: the loop body reaches axe.run.
NeedsOracle(c) ==
    /\ c.hasModel
    /\ c.type \in {"markdown", "code"}
    /\ c.output \notin {"absent", "blank"}

\* A loop that stops at the first cell without a model instead of skipping it.
RECURSIVE NextOracleIndexBreaks(_, _)
NextOracleIndexBreaks(cells, j) ==
    IF j > Len(cells) THEN Len(cells) + 1
    ELSE IF ~cells[j].hasModel THEN Len(cells) + 1
    ELSE IF NeedsOracle(cells[j]) THEN j
    ELSE NextOracleIndexBreaks(cells, j + 1)

\* The for loop from position j (1-based: the code's i is j - 1) up to the
\* first cell on which it calls the oracle; Len(cells) + 1 when it exits.
RECURSIVE NextOracleIndex(_, _)
NextOracleIndex(cells, j) ==
    IF j > Len(cells) THEN Len(cells) + 1
    ELSE IF NeedsOracle(cells[j]) THEN j
    ELSE NextOracleIndex(cells, j + 1)

Issue(i, ty, res, src) ==
    [cellIndex |-> i, cellType |-> ty, axeResults |-> res, contentRaw |-> src]

(***************************************************************************)
(* formatPrompt.  The prompt string is the sequence of the pieces the      *)
(* template literals put together: the fixed texts, the cell's raw source, *)
(* and for each violation its rule id and its description.                 *)
(***************************************************************************)
Piece(k, text) == [k |-> k, text |-> text]

Rules == {"image-alt", "color-contrast"}

\* result.description of the axe result for a rule.
Description(id) ==
    CASE id = "image-alt" -> "Ensures img elements have alternate text"
      [] id = "color-contrast" -> "Ensures the contrast meets the AA thresholds"
      [] OTHER -> ""

\* A forEach that stops after the first violation.
ViolationBlocksFirstOnly(results) ==
    IF results = <<>> THEN <<>>
    ELSE <<Piece("issue", Head(results)),
           Piece("description", Description(Head(results)))>>

\* cellIssue.axeResults.forEach(...) of lines 76-79.
RECURSIVE ViolationBlocks(_)
ViolationBlocks(results) ==
    IF results = <<>> THEN <<>>
    ELSE <<Piece("issue", Head(results)),
           Piece("description", Description(Head(results)))>>
         \o ViolationBlocks(Tail(results))

formatPrompt(issue) ==
    <<Piece("text", "The following represents a jupyter notebook cell"),
      Piece("content", issue.contentRaw.s)>>
    \o ViolationBlocks(issue.axeResults)

RemoveAt(s, k) == SubSeq(s, 1, k - 1) \o SubSeq(s, k + 1, Len(s))
InsertAt(s, k, e) == SubSeq(s, 1, k - 1) \o <<e>> \o SubSeq(s, k, Len(s))
Without(s, e) == SelectSeq(s, LAMBDA x : x /= e)
InSeq(s, e) == \E k \in DOMAIN s : s[k] = e
HasCell(cells, id) == \E k \in DOMAIN cells : cells[k].id = id
CellById(cells, id) == cells[CHOOSE k \in DOMAIN cells : cells[k].id = id]

MaxScans == 2
MaxApplies == 1
MaxEdits == 1
MaxCells == 2
MaxIdleClicks == 1

VARIABLES
    adInput,          \* the transport outcome handed to one getFixSuggestions call
    adResult,         \* the promise that call returned
    doc,              \* notebook -> its cells (panel.content.widgets)
    nextCellId,       \* the id of the next cell the user inserts
    edits,            \* the number of user edits so far
    panelNotebook,    \* A11yMainPanel.currentNotebook
    issuesContainer,  \* the children of A11yMainPanel.issuesContainer (widget ids)
    widgets,          \* every CellIssueWidget constructed so far
    scans,            \* every analyzeCurrentNotebook call so far
    applies,          \* every applySuggestion call so far
    axeRuns,          \* the axe.run calls in flight
    idleClicks,       \* the clicks on "Analyze Notebook" that returned at line 314
    fpIssue,          \* the issue handed to formatPrompt
    fpPrompts         \* the strings the formatPrompt calls on it returned

adVars == <<adInput, adResult>>
fpVars == <<fpIssue, fpPrompts>>
pureVars == <<adInput, adResult, fpIssue, fpPrompts>>
panelVars ==
    <<doc, nextCellId, edits, panelNotebook, issuesContainer, widgets, scans,
      applies, axeRuns, idleClicks>>
vars == <<adInput, adResult, doc, nextCellId, edits, panelNotebook,
          issuesContainer, widgets, scans, applies, axeRuns, idleClicks,
          fpIssue, fpPrompts>>

\* The options of the scan's axe.run calls (lines 24-27) and of the one in
\* applySuggestion (lines 255-258).
ScanAxeConfig ==
    [runOnly |-> <<"wcag2a", "wcag2aa", "wcag21a", "wcag21aa">>,
     disabledRules |-> {"button-name"}]
ApplyAxeConfig ==
    [runOnly |-> <<"wcag2a", "wcag2aa", "wcag21a", "wcag21aa">>,
     disabledRules |-> {"button-name"}]

AxeRun(by, id, idx, html) ==
    [by |-> by, id |-> id, idx |-> idx, html |-> html,
     config |-> IF by = "scan" THEN ScanAxeConfig ELSE ApplyAxeConfig]

\* The state after `new A11yMainPanel()` over the documents `d`.
PanelInit(d) ==
    /\ doc = d
    /\ nextCellId = 100
    /\ edits = 0
    /\ panelNotebook = NoNotebook
    /\ issuesContainer = <<>>
    /\ widgets = <<>>
    /\ scans = <<>>
    /\ applies = <<>>
    /\ axeRuns = {}
    /\ idleClicks = 0

AdapterIdle ==
    /\ adInput = Outcome("error", 0, FALSE, Body("garbage", "undefined", <<>>))
    /\ adResult = NotSettled

\* No formatPrompt call is followed.
FormatIdle ==
    /\ fpIssue = Issue(0, "markdown", <<>>, Str(""))
    /\ fpPrompts = <<>>

NoDocs == [nb \in Notebooks |-> <<>>]

AdapterInit ==
    /\ adInput \in HttpOutcomes /\ adResult = NotSettled
    /\ FormatIdle
    /\ PanelInit(NoDocs)

AdapterCall ==
    /\ adResult.state = "pending"
    /\ adResult' = getFixSuggestions(adInput)
    /\ UNCHANGED <<adInput, fpVars, panelVars>>

AdapterNext == AdapterCall

SpecAdapter == AdapterInit /\ [][AdapterNext]_vars

(***************************************************************************)
(* analyzeCellsAccessibility, one call per analyzeCurrentNotebook call.    *)
(* A scan record holds the call's locals: its notebook, the loop position  *)
(* j (the code's i + 1), the `cell` it is at, the issues pushed so far and *)
(* whether tempDiv is attached; calls, edited, overlapped and docAtStart   *)
(* are history.                                                            *)
(***************************************************************************)
Scan(nb, j, cells) ==
    [nb |-> nb, j |-> j,
     cell |-> IF j <= Len(cells) THEN cells[j].id ELSE 0,
     issues |-> <<>>,
     state |-> IF j <= Len(cells) THEN "awaitAxe" ELSE "returned",
     divAttached |-> j <= Len(cells),
     divsCreated |-> 1,
     calls |-> 0,
     edited |-> FALSE,
     overlapped |-> FALSE,
     docAtStart |-> cells]

\* A loop that does not await: the call for the next cell starts as well.
ScanInvocationsNoAwait(id, cells, j) ==
    {AxeRun("scan", id, j, cells[j].output)}
    \cup {AxeRun("scan", id, NextOracleIndex(cells, j + 1),
                 cells[NextOracleIndex(cells, j + 1)].output) :
             x \in {y \in {1} : NextOracleIndex(cells, j + 1) <= Len(cells)}}

\* The axe.run calls the loop starts on reaching position j: tempDiv is
\* overwritten with that cell's output and the one call is awaited.
ScanInvocations(id, cells, j) == {AxeRun("scan", id, j, cells[j].output)}

\* An exception path without the finally block.
ScanThrowsLeaks(s) == [s EXCEPT !.state = "failed"]

\* The finally block, on the exception path.
ScanThrows(s) == [s EXCEPT !.state = "failed", !.divAttached = FALSE]

\* The issues after the awaited call on `cell` gave `violations`.
ScanPush(s, cells, violations) ==
    IF violations /= <<>>
    THEN Append(s.issues,
                Issue(s.j - 1, CellById(cells, s.cell).type, violations,
                      CellById(cells, s.cell).source))
    ELSE s.issues

\* The loop from the resumption after the awaited call to the next await, or
\* to the finally block and the return.
ScanResumes(s, cells, violations) ==
    LET next == NextOracleIndex(cells, s.j + 1) IN
    IF next <= Len(cells)
    THEN [s EXCEPT !.j = next, !.cell = cells[next].id,
                   !.issues = ScanPush(s, cells, violations),
                   !.calls = s.calls + 1]
    ELSE [s EXCEPT !.j = next, !.cell = 0,
                   !.issues = ScanPush(s, cells, violations),
                   !.calls = s.calls + 1,
                   !.state = "returned", !.divAttached = FALSE]

\* A document mutation seen by the scans that are awaiting the oracle on it.
MarkEdited(ss, nb) ==
    [i \in DOMAIN ss |->
        IF ss[i].nb = nb /\ ss[i].state = "awaitAxe"
        THEN [ss[i] EXCEPT !.edited = TRUE] ELSE ss[i]]

\* A click on "Analyze Notebook" seen by the scans that are awaiting the
\* oracle: they and the new scan run at the same time.
SomeScanAwaits(ss) == \E i \in DOMAIN ss : ss[i].state = "awaitAxe"
MarkOverlapped(ss) ==
    [i \in DOMAIN ss |->
        IF ss[i].state = "awaitAxe" THEN [ss[i] EXCEPT !.overlapped = TRUE]
        ELSE ss[i]]

(***************************************************************************)
(* CellIssueWidget.  The constructor stores the notebook and the issue's   *)
(* index and starts the one request for a suggestion (pending).  `failed`  *)
(* and `scan` are history: how the request ended and which scan's issue    *)
(* the widget shows; `requests` counts its getFixSuggestions calls.        *)
(***************************************************************************)
Widget(issue, nb, scanId) ==
    [notebook |-> nb, cellIndex |-> issue.cellIndex, issue |-> issue,
     suggestion |-> Str(""), pending |-> TRUE, failed |-> FALSE,
     disposed |-> FALSE, scan |-> scanId, requests |-> 1]

\* issues.forEach(...) of analyzeCurrentNotebook: one widget per issue, bound
\* to the panel's notebook at that moment.
NewWidgets(issues, nb, scanId) ==
    [k \in DOMAIN issues |-> Widget(issues[k], nb, scanId)]

\* A forEach that also runs over the issues of a scan that has not returned.
WidgetsMadeAlways(t, nb, scanId) == NewWidgets(t.issues, nb, scanId)

\* Lines 318-323: the forEach runs when the awaited scan has returned; a
\* rejection leaves analyzeCurrentNotebook at the await.
WidgetsMade(t, nb, scanId) ==
    IF t.state = "returned" THEN NewWidgets(t.issues, nb, scanId) ELSE <<>>

\* Transport outcomes the panel's requests meet.
FencedReply(p) ==
    Outcome("response", 200, TRUE,
            Body("object", "string", <<FenceOpen, JsonText(p), FenceClose>>))
PanelOutcomes ==
    {Outcome("error", 0, FALSE, Body("garbage", "undefined", <<>>)),
     Outcome("response", 200, TRUE, Body("object", "string", <<Prose>>)),
     FencedReply(Payload("object", Str("fix"), Str("why"))),
     FencedReply(Payload("object", Undefined, Str("why")))}

\* A rebinding that also empties the panel's list.
setNotebookClears(nb) ==
    /\ nb /= panelNotebook
    /\ panelNotebook' = nb
    /\ issuesContainer' = <<>>
    /\ UNCHANGED <<pureVars, idleClicks, doc, nextCellId, edits, widgets, scans,
                   applies, axeRuns>>

\* labShell.currentChanged with a NotebookPanel as the current widget.
setNotebook(nb) ==
    /\ nb /= panelNotebook
    /\ panelNotebook' = nb
    /\ UNCHANGED <<pureVars, idleClicks, doc, nextCellId, edits, issuesContainer, widgets, scans,
                   applies, axeRuns>>

\* A click on "Analyze Notebook".  With no notebook the handler returns at
\* line 314.  Otherwise the container is cleared and the scan runs to its
\* first await; a scan that never calls the oracle returns an empty list
\* within the same task.
analyzeCurrentNotebook ==
    IF panelNotebook = NoNotebook
    THEN /\ idleClicks < MaxIdleClicks
         /\ idleClicks' = idleClicks + 1
         /\ UNCHANGED <<pureVars, doc, nextCellId, edits, panelNotebook,
                        issuesContainer, widgets, scans, applies, axeRuns>>
    ELSE /\ Len(scans) < MaxScans
         /\ LET cells == doc[panelNotebook]
                j == NextOracleIndex(cells, 1)
            IN /\ scans' = Append(MarkOverlapped(scans),
                                  [Scan(panelNotebook, j, cells) EXCEPT
                                      !.overlapped = SomeScanAwaits(scans)])
               /\ axeRuns' = IF j <= Len(cells)
                             THEN axeRuns \cup ScanInvocations(Len(scans) + 1, cells, j)
                             ELSE axeRuns
         /\ issuesContainer' = <<>>
         /\ UNCHANGED <<pureVars, idleClicks, doc, nextCellId, edits, panelNotebook,
                        widgets, applies>>

\* The axe.run call a scan awaits settles.  A rejection, or a push for a cell
\* that was deleted meanwhile (its model is null), leaves through the finally
\* block; otherwise the loop goes on to its next await or returns, and on
\* return analyzeCurrentNotebook builds the widgets.
ScanAxeSettles(r, ok) ==
    /\ r \in axeRuns /\ r.by = "scan"
    /\ scans[r.id].state = "awaitAxe" /\ scans[r.id].j = r.idx
    /\ LET s == scans[r.id]
           cells == doc[s.nb]
           violations == Oracle(r.html)
           throws == ~ok \/ (violations /= <<>> /\ ~HasCell(cells, s.cell))
           t == IF throws THEN ScanThrows(s) ELSE ScanResumes(s, cells, violations)
           made == WidgetsMade(t, panelNotebook, r.id)
       IN /\ scans' = [scans EXCEPT ![r.id] = t]
          /\ axeRuns' = IF t.state = "awaitAxe"
                        THEN (axeRuns \ {r}) \cup ScanInvocations(r.id, cells, t.j)
                        ELSE axeRuns \ {r}
          /\ widgets' = widgets \o made
          /\ issuesContainer' =
                issuesContainer \o [k \in DOMAIN made |-> Len(widgets) + k]
    /\ UNCHANGED <<pureVars, idleClicks, doc, nextCellId, edits, panelNotebook, applies>>

\* A callback that stores the suggestion and sends the request once more.
SuggestionSettlesAndAsksAgain(w, o) ==
    /\ w \in DOMAIN widgets /\ widgets[w].pending
    /\ widgets[w].requests < 3
    /\ LET res == getFixSuggestions(o) IN
       widgets' = [widgets EXCEPT
                      ![w].requests = @ + 1,
                      ![w].failed = OuterThrows(o) \/ InnerThrows(o.body),
                      ![w].suggestion = res.value[1]]
    /\ UNCHANGED <<pureVars, idleClicks, doc, nextCellId, edits, panelNotebook,
                   issuesContainer, scans, applies, axeRuns>>

\* The promise of a widget's getFixSuggestions call settles: the .then
\* callback stores the suggestion.
SuggestionSettles(w, o) ==
    /\ w \in DOMAIN widgets /\ widgets[w].pending
    /\ LET res == getFixSuggestions(o) IN
       widgets' = [widgets EXCEPT
                      ![w].pending = FALSE,
                      ![w].failed = OuterThrows(o) \/ InnerThrows(o.body),
                      ![w].suggestion = IF res.state = "fulfilled"
                                        THEN res.value[1] ELSE @]
    /\ UNCHANGED <<pureVars, idleClicks, doc, nextCellId, edits, panelNotebook, issuesContainer,
                   scans, applies, axeRuns>>

\* A setSource that writes to the first cell.
SetSourceOfFirst(cells, k, x) == [cells EXCEPT ![1].source = x]

\* cell.model.sharedModel.setSource(x) on the cell at position k.
SetSource(cells, k, x) == [cells EXCEPT ![k].source = x]

\* The test of line 261, inverted.
NoViolationsInverted(ok, violations) == ok /\ violations /= <<>>

\* The awaited axe.run resolved and results.violations.length === 0.
NoViolations(ok, violations) == ok /\ violations = <<>>

\* An applySuggestion without the test of this.suggestion.
ApplyActsUnguarded(wd) ==
    /\ wd.notebook /= NoNotebook
    /\ wd.cellIndex + 1 \in DOMAIN doc[wd.notebook]
    /\ doc[wd.notebook][wd.cellIndex + 1].hasModel

\* applySuggestion runs its body: the guard of line 242 and the cell lookup
\* of lines 244-245 both pass.
ApplyActs(wd) ==
    /\ wd.notebook /= NoNotebook
    /\ Truthy(wd.suggestion)
    /\ wd.cellIndex + 1 \in DOMAIN doc[wd.notebook]
    /\ doc[wd.notebook][wd.cellIndex + 1].hasModel

\* A click on a widget's Apply button, up to the await of axe.run.  The
\* detached div of line 251 copies the cell's node in the same task as the
\* setSource of line 247: `judged` is the source its rendering came from.
applySuggestion(w) ==
    /\ InSeq(issuesContainer, w)
    /\ Len(applies) < MaxApplies
    /\ LET wd == widgets[w]
           k == wd.cellIndex + 1
           acts == ApplyActs(wd)
       IN /\ applies' = Append(applies,
                 [w |-> w, nb |-> wd.notebook, x |-> wd.suggestion,
                  state |-> IF acts THEN "awaitAxe" ELSE "noop",
                  cell |-> IF acts THEN doc[wd.notebook][k].id ELSE 0,
                  judged |-> IF acts
                             THEN SetSource(doc[wd.notebook], k,
                                            wd.suggestion)[k].renderedFrom
                             ELSE Str(""),
                  result |-> <<>>])
          /\ doc' = IF acts
                    THEN [doc EXCEPT ![wd.notebook] = SetSource(@, k, wd.suggestion)]
                    ELSE doc
          /\ axeRuns' = IF acts
                        THEN axeRuns \cup {AxeRun("apply", Len(applies) + 1, k, "cell")}
                        ELSE axeRuns
          /\ scans' = IF acts THEN MarkEdited(scans, wd.notebook) ELSE scans
    /\ UNCHANGED <<pureVars, idleClicks, nextCellId, edits, panelNotebook, issuesContainer, widgets>>

\* The axe.run call of an applySuggestion settles: with no violation the
\* widget's node is removed and the widget disposed.
ApplyAxeSettles(r, ok, violations) ==
    /\ r \in axeRuns /\ r.by = "apply"
    /\ applies[r.id].state = "awaitAxe"
    /\ LET w == applies[r.id].w
           gone == NoViolations(ok, violations)
       IN /\ applies' = [applies EXCEPT
                            ![r.id].state = IF ok THEN "resolved" ELSE "failed",
                            ![r.id].result = IF ok THEN violations ELSE <<>>]
          /\ issuesContainer' = IF gone THEN Without(issuesContainer, w)
                                ELSE issuesContainer
          /\ widgets' = IF gone THEN [widgets EXCEPT ![w].disposed = TRUE]
                        ELSE widgets
    /\ axeRuns' = axeRuns \ {r}
    /\ UNCHANGED <<pureVars, idleClicks, doc, nextCellId, edits, panelNotebook, scans>>

\* The user deletes a cell of a notebook.
DeleteCell(nb, k) ==
    /\ edits < MaxEdits
    /\ k \in DOMAIN doc[nb]
    /\ doc' = [doc EXCEPT ![nb] = RemoveAt(@, k)]
    /\ edits' = edits + 1
    /\ scans' = MarkEdited(scans, nb)
    /\ UNCHANGED <<pureVars, idleClicks, nextCellId, panelNotebook, issuesContainer, widgets,
                   applies, axeRuns>>

\* The user inserts a rendered markdown cell at position k (the model's
\* specifications insert at the top, which shifts every cell below).
InsertCell(nb, k) ==
    /\ edits < MaxEdits
    /\ k \in 1..(Len(doc[nb]) + 1)
    /\ doc' = [doc EXCEPT
                  ![nb] = InsertAt(@, k, Cell(nextCellId, TRUE, "markdown", "img",
                                              Str("new")))]
    /\ nextCellId' = nextCellId + 1
    /\ edits' = edits + 1
    /\ scans' = MarkEdited(scans, nb)
    /\ UNCHANGED <<pureVars, idleClicks, panelNotebook, issuesContainer, widgets, applies, axeRuns>>

(***************************************************************************)
(* The plugin over two open notebooks.                                     *)
(***************************************************************************)
MainDocs ==
    [nb \in Notebooks |->
        IF nb = "nb1"
        THEN <<Cell(1, TRUE, "code", "clean", Str("a")),
               Cell(2, TRUE, "markdown", "img", Str("b"))>>
        ELSE <<Cell(3, TRUE, "code", "absent", Str("c")),
               Cell(4, TRUE, "markdown", "clean", Str("d"))>>]

Init == AdapterIdle /\ FormatIdle /\ PanelInit(MainDocs)

\* The clicks on "Analyze Notebook" followed here are those made with a
\* notebook bound; SpecPanel follows the others.
Next ==
    \/ \E nb \in Notebooks : setNotebook(nb)
    \/ panelNotebook /= NoNotebook /\ analyzeCurrentNotebook
    \/ \E r \in axeRuns, ok \in BOOLEAN : ScanAxeSettles(r, ok)
    \/ \E w \in DOMAIN widgets, o \in PanelOutcomes : SuggestionSettles(w, o)
    \/ \E w \in DOMAIN widgets : applySuggestion(w)
    \/ \E r \in axeRuns, ok \in BOOLEAN, v \in RevalidationResults :
          ApplyAxeSettles(r, ok, v)
    \/ \E nb \in Notebooks, k \in 1..(MaxCells + 1) : DeleteCell(nb, k)
    \/ \E nb \in Notebooks : InsertCell(nb, 1)

Spec == Init /\ [][Next]_vars

(***************************************************************************)
(* One notebook of any shape, scanned.                                     *)
(***************************************************************************)
CellKinds ==
    {<<FALSE, "markdown", "img">>, <<TRUE, "raw", "img">>,
     <<TRUE, "markdown", "absent">>, <<TRUE, "code", "blank">>,
     <<TRUE, "markdown", "clean">>, <<TRUE, "markdown", "img">>,
     <<TRUE, "code", "imgcc">>}
Sources == <<Str("a"), Str("b"), Str("c"), Str("d")>>
ScanDocs ==
    {[k \in 1..Len(ks) |-> Cell(k, ks[k][1], ks[k][2], ks[k][3], Sources[k])] :
        ks \in SeqsUpTo(CellKinds, MaxCells)}

ScanInit ==
    /\ AdapterIdle
    /\ FormatIdle
    /\ \E d \in ScanDocs :
          PanelInit([nb \in Notebooks |-> IF nb = "nb1" THEN d ELSE <<>>])

\* The clicks on "Analyze Notebook" this specification follows.
MaxScanClicks == 1

ScanNext ==
    \/ setNotebook("nb1")
    \/ panelNotebook /= NoNotebook /\ Len(scans) < MaxScanClicks
          /\ analyzeCurrentNotebook
    \/ \E r \in axeRuns, ok \in BOOLEAN : ScanAxeSettles(r, ok)
    \/ \E k \in 1..(MaxCells + 1) : DeleteCell("nb1", k)
    \/ InsertCell("nb1", 1)

SpecScan == ScanInit /\ [][ScanNext]_vars

(***************************************************************************)
(* formatPrompt, called on one issue as the widget's constructor calls it  *)
(* (lines 212 and 214).                                                    *)
(***************************************************************************)
MaxViolations == 2
MaxFormatCalls == 2

FormatIssues ==
    {Issue(i, ty, res, src) :
        i \in 0..1, ty \in {"markdown", "code"},
        res \in SeqsUpTo(Rules, MaxViolations), src \in {Str(""), Str("a")}}

FormatInit ==
    /\ AdapterIdle
    /\ PanelInit(NoDocs)
    /\ fpIssue \in FormatIssues
    /\ fpPrompts = <<>>

\* One call of formatPrompt: it reads the issue and returns the string.
FormatCall ==
    /\ Len(fpPrompts) < MaxFormatCalls
    /\ fpPrompts' = Append(fpPrompts, formatPrompt(fpIssue))
    /\ UNCHANGED <<fpIssue, adVars, panelVars>>

FormatNext == FormatCall

SpecFormat == FormatInit /\ [][FormatNext]_vars

(***************************************************************************)
(* The panel alone over the two notebooks: the signal that rebinds it, the *)
(* clicks on "Analyze Notebook" with and without a notebook, the scans and *)
(* their widgets.                                                          *)
(***************************************************************************)
PanelDocs ==
    [nb \in Notebooks |->
        IF nb = "nb1"
        THEN <<Cell(1, TRUE, "markdown", "img", Str("a")),
               Cell(2, TRUE, "code", "imgcc", Str("b"))>>
        ELSE <<Cell(3, TRUE, "code", "absent", Str("c")),
               Cell(4, TRUE, "markdown", "clean", Str("d"))>>]

PanelSpecInit == AdapterIdle /\ FormatIdle /\ PanelInit(PanelDocs)

PanelNext ==
    \/ \E nb \in Notebooks : setNotebook(nb)
    \/ analyzeCurrentNotebook
    \/ \E r \in axeRuns, ok \in BOOLEAN : ScanAxeSettles(r, ok)

SpecPanel == PanelSpecInit /\ [][PanelNext]_vars

(***************************************************************************)
(* Claims about getFixSuggestions, checked under SpecAdapter.              *)
(***************************************************************************)
AdSettled == adResult.state /= "pending"
AdSuccess ==
    /\ adInput.net = "response"
    /\ ResponseOk(adInput)
    /\ adInput.textOk
    /\ adInput.body.kind = "object"
    /\ adInput.body.rtype = "string"

\* The `response` string is the JSON text of p, raw or inside the json fence.
RawOrFenced(ch, p) ==
    ch = <<JsonText(p)>> \/ ch = <<FenceOpen, JsonText(p), FenceClose>>

\* C5: for every transport outcome and body, the promise getFixSuggestions
\* returns is fulfilled, never rejected, and both elements of its value are
\* strings (possibly empty).
C5_AlwaysWellFormed ==
    AdSettled =>
        /\ adResult.state = "fulfilled"
        /\ IsString(adResult.value[1])
        /\ IsString(adResult.value[2])

\* C6: on a non-success transport status the returned replacement text is
\* the empty string and the explanation is a non-empty string.
C6_NonSuccessStatus ==
    (AdSettled /\ adInput.net = "response" /\ ~ResponseOk(adInput)) =>
        /\ adResult.value[1] = Str("")
        /\ IsString(adResult.value[2])
        /\ adResult.value[2] /= Str("")

AbsentToEmpty(v) == IF v = Undefined THEN Str("") ELSE v

\* C10 as stated: on a successful response whose `response` is JSON, raw or
\* fenced, the result is the payload's two fields, the empty string standing
\* in for a field that is absent.
C10_FieldsAsStated ==
    \A p \in Payloads :
        (AdSettled /\ AdSuccess /\ RawOrFenced(adInput.body.chunks, p)) =>
            adResult.value =
                <<AbsentToEmpty(p.exampleCellContent), AbsentToEmpty(p.explanation)>>

FalsyToEmpty(v) == IF v \in {Undefined, JNull, Str(""), Num(0)} THEN Str("") ELSE v

\* C10 amended: on a successful response whose `response` is the text of one
\* JSON value other than null, raw or fenced, each element of the result is
\* the payload's field when that is present and truthy, and the empty string
\* when it is absent or falsy (null, "", 0).
C10_FieldsOrEmpty ==
    \A p \in Payloads :
        (AdSettled /\ AdSuccess /\ p.kind /= "null"
            /\ RawOrFenced(adInput.body.chunks, p)) =>
            adResult.value =
                <<FalsyToEmpty(p.exampleCellContent), FalsyToEmpty(p.explanation)>>

\* A fenced payload with one field absent has been parsed.
C10_Witness ==
    /\ AdSettled /\ AdSuccess
    /\ adInput.body.chunks =
           <<FenceOpen, JsonText(Payload("object", Str("fix"), Undefined)), FenceClose>>
    /\ adResult.value = <<Str("fix"), Str("")>>

(***************************************************************************)
(* Claims about the panel and its widgets, checked under Spec.             *)
(***************************************************************************)
ApplyCalled == Len(applies') = Len(applies) + 1
NewApply == applies'[Len(applies')]

\* C1: a widget whose request to the backend ended in a failure never has an
\* applySuggestion call that did anything: every such call left all sources
\* as they were and started no re-validation.
C1_FailedSuggestionApplyIsNoop ==
    \A a \in DOMAIN applies :
        widgets[applies[a].w].failed => applies[a].state = "noop"

\* The new axe.run calls of a step are exactly one, for the call just made.
OneRevalidationStarted ==
    /\ axeRuns \subseteq axeRuns'
    /\ Cardinality(axeRuns' \ axeRuns) = 1
    /\ \A r \in axeRuns' \ axeRuns : r.by = "apply" /\ r.id = Len(applies')

\* C2 as stated: every applySuggestion call on a widget with a non-empty
\* suggestion X and a notebook sets the source of the cell at the widget's
\* index to X and starts exactly one oracle run.
C2_ApplySetsSourceAlways ==
    [][(ApplyCalled /\ Truthy(NewApply.x) /\ NewApply.nb /= NoNotebook) =>
          LET k == widgets[NewApply.w].cellIndex + 1 IN
          /\ k \in DOMAIN doc'[NewApply.nb]
          /\ doc'[NewApply.nb][k].source = NewApply.x
          /\ OneRevalidationStarted]_vars

\* C2 amended: such a call does so when the widget's notebook holds a cell
\* with a model at the widget's index, and it changes only that cell's
\* source; with no such cell the call changes no source and starts no
\* oracle run.
C2_ApplySetsSourceOfCellAtIndex ==
    [][(ApplyCalled /\ Truthy(NewApply.x) /\ NewApply.nb /= NoNotebook) =>
          LET nb == NewApply.nb
              k == widgets[NewApply.w].cellIndex + 1
          IN IF k \in DOMAIN doc[nb] /\ doc[nb][k].hasModel
             THEN /\ doc'[nb][k].source = NewApply.x
                  /\ \A n \in Notebooks : Len(doc'[n]) = Len(doc[n])
                  /\ \A n \in Notebooks : \A i \in DOMAIN doc[n] :
                        (n /= nb \/ i /= k) => doc'[n][i] = doc[n][i]
                  /\ OneRevalidationStarted
             ELSE doc' = doc /\ axeRuns' = axeRuns]_vars

\* An apply has written the suggestion "fix" into the cell at its index and
\* awaits its one oracle run.
C2_Witness ==
    \E a \in DOMAIN applies :
        /\ applies[a].state = "awaitAxe"
        /\ applies[a].x = Str("fix")
        /\ doc[applies[a].nb][widgets[applies[a].w].cellIndex + 1].source = Str("fix")
        /\ AxeRun("apply", a, widgets[applies[a].w].cellIndex + 1, "cell") \in axeRuns

RevalidationCompletes(a) ==
    applies[a].state = "awaitAxe" /\ applies'[a].state = "resolved"

\* C3 as stated: when the re-validation of an apply completes, with zero
\* violations the widget is out of the panel's list and disposed, and with
\* one or more it is in the list with the suggestion it had.
C3_RevalidationOutcome ==
    [][\A a \in DOMAIN applies :
          RevalidationCompletes(a) =>
              LET w == applies[a].w IN
              IF applies'[a].result = <<>>
              THEN ~InSeq(issuesContainer', w) /\ widgets'[w].disposed
              ELSE InSeq(issuesContainer', w)
                   /\ widgets'[w].suggestion = applies[a].x]_vars

\* C3 amended: with zero violations the widget is out of the list and
\* disposed; with one or more the completion leaves the list and the widget
\* as they were, so the widget is still listed if it was listed when the
\* re-validation completed, with the suggestion it had.
C3_RevalidationKeepsOrRemoves ==
    [][\A a \in DOMAIN applies :
          RevalidationCompletes(a) =>
              LET w == applies[a].w IN
              IF applies'[a].result = <<>>
              THEN ~InSeq(issuesContainer', w) /\ widgets'[w].disposed
              ELSE /\ issuesContainer' = issuesContainer
                   /\ widgets' = widgets
                   /\ widgets'[w].suggestion = applies[a].x]_vars

\* A re-validation found violations and its widget is still listed with the
\* suggestion that was applied.
C3_Witness ==
    \E a \in DOMAIN applies :
        /\ applies[a].state = "resolved"
        /\ applies[a].result /= <<>>
        /\ InSeq(issuesContainer, applies[a].w)
        /\ ~widgets[applies[a].w].disposed
        /\ widgets[applies[a].w].suggestion = applies[a].x

\* The widgets built from scan s that have not been disposed, in the order
\* of its issues.
WidgetsOf(s) ==
    SelectSeq([w \in DOMAIN widgets |-> w],
              LAMBDA w : widgets[w].scan = s /\ ~widgets[w].disposed)

\* C4: whenever an analysis has been run and none is awaiting its scan, the
\* panel's list is the widgets of one single scan, one per issue in scan
\* order, with none left over from another run.
C4_ListIsOneScansBatch ==
    (scans /= <<>> /\ \A i \in DOMAIN scans : scans[i].state /= "awaitAxe") =>
        \E s \in DOMAIN scans :
            /\ issuesContainer = WidgetsOf(s)
            /\ \A k \in DOMAIN issuesContainer :
                  widgets[issuesContainer[k]].issue \in
                      {scans[s].issues[i] : i \in DOMAIN scans[s].issues}

(***************************************************************************)
(* Claims about the scan, checked under SpecScan.                          *)
(***************************************************************************)
\* The issues a scan of `cells` is to return, from position k on.
RECURSIVE IssuesFrom(_, _)
IssuesFrom(cells, k) ==
    IF k > Len(cells) THEN <<>>
    ELSE LET c == cells[k] IN
         IF /\ c.hasModel
            /\ c.type \in {"markdown", "code"}
            /\ c.output \in {"clean", "img", "imgcc"}
            /\ Oracle(c.output) /= <<>>
         THEN <<Issue(k - 1, c.type, Oracle(c.output), c.source)>>
                  \o IssuesFrom(cells, k + 1)
         ELSE IssuesFrom(cells, k + 1)

\* C7 as stated: a scan that returns has, for the document it was started on,
\* in ascending index order exactly one issue for each cell with a model, a
\* recognized type, a non-blank output and at least one violation, with the
\* violations in the oracle's order, and nothing for any other cell.
C7_ScanOfEveryDocument ==
    \A i \in DOMAIN scans :
        scans[i].state = "returned" =>
            scans[i].issues = IssuesFrom(scans[i].docAtStart, 1)

\* C7 amended: the same, for a scan over a document that no edit and no
\* apply changed while the scan was awaiting the oracle.
C7_ScanReturnsExactlyTheViolatingCells ==
    \A i \in DOMAIN scans :
        (scans[i].state = "returned" /\ ~scans[i].edited) =>
            scans[i].issues = IssuesFrom(scans[i].docAtStart, 1)

\* A scan skipped a cell without a model and reported a later cell.
C7_Witness ==
    \E i \in DOMAIN scans :
        /\ scans[i].state = "returned" /\ ~scans[i].edited
        /\ Len(scans[i].docAtStart) = 2
        /\ ~scans[i].docAtStart[1].hasModel
        /\ Len(scans[i].issues) = 1
        /\ scans[i].issues[1].cellIndex = 1

ScanRuns(i) == {r \in axeRuns : r.by = "scan" /\ r.id = i}

\* C8: a scan has at most one oracle call in flight, and that call is the
\* one for the cell at its loop position: the position moves on, and the
\* scratch container is overwritten, only once the call has settled.
C8_ScanOracleCallsSequential ==
    \A i \in DOMAIN scans :
        /\ Cardinality(ScanRuns(i)) <= 1
        /\ \A r \in ScanRuns(i) :
              scans[i].state = "awaitAxe" /\ r.idx = scans[i].j
        /\ scans[i].state = "awaitAxe" => ScanRuns(i) /= {}

\* A scan awaits its second oracle call after its first has settled.
C8_Witness ==
    \E i \in DOMAIN scans :
        /\ scans[i].state = "awaitAxe"
        /\ scans[i].calls >= 1
        /\ Cardinality(ScanRuns(i)) = 1

\* C9: each scan creates one scratch container, attached while the scan
\* awaits, and a scan that has ended, by return or by a failed oracle call,
\* has detached it.
C9_ScratchContainerDetached ==
    \A i \in DOMAIN scans :
        /\ scans[i].divsCreated = 1
        /\ scans[i].state \in {"returned", "failed"} => ~scans[i].divAttached
        /\ scans[i].state = "awaitAxe" => scans[i].divAttached

\* A scan that skipped a cell ended by a failed oracle call after an earlier
\* call had resolved, and its container is detached.
C9_Witness ==
    \E i \in DOMAIN scans :
        /\ scans[i].state = "failed" /\ ~scans[i].divAttached
        /\ scans[i].calls >= 1
        /\ \E c \in DOMAIN scans[i].docAtStart : ~NeedsOracle(scans[i].docAtStart[c])
(***************************************************************************)
(* Claims about the panel's triggers, checked under SpecPanel.             *)
(***************************************************************************)
\* C11: a click on "Analyze Notebook" with no notebook bound changes nothing
\* of the panel (list, widgets, scans, oracle runs); a step that rebinds the
\* panel's notebook changes nothing but the binding; and a scan starts only
\* in a click step made with a notebook bound, which leaves the binding.
C11_OnlyClicksStartScans ==
    [][/\ idleClicks' /= idleClicks =>
             /\ panelNotebook = NoNotebook
             /\ UNCHANGED <<panelNotebook, issuesContainer, widgets, scans,
                            axeRuns, doc>>
       /\ panelNotebook' /= panelNotebook =>
             UNCHANGED <<issuesContainer, widgets, scans, axeRuns, doc, idleClicks>>
       /\ Len(scans') > Len(scans) =>
             /\ panelNotebook /= NoNotebook
             /\ panelNotebook' = panelNotebook
             /\ scans'[Len(scans')].nb = panelNotebook]_vars

\* After a click with no notebook, a scan of nb1 has put a widget into the
\* list and the panel has then been rebound to nb2, which no scan has read.
C11_Witness ==
    /\ idleClicks = 1
    /\ panelNotebook = "nb2"
    /\ issuesContainer /= <<>>
    /\ \A i \in DOMAIN scans : scans[i].nb = "nb1"
ScanFails(i) == scans[i].state = "awaitAxe" /\ scans'[i].state = "failed"

ScanIsFull(i) == scans[i].issues = IssuesFrom(scans[i].docAtStart, 1)

\* No widget shows an issue of a failed scan, and a scan started after a
\* failed one and returned has gone over its whole document.
NoPartialResult ==
    /\ \A w \in DOMAIN widgets : scans[widgets[w].scan].state /= "failed"
    /\ \A i \in DOMAIN scans : \A k \in DOMAIN scans :
          (i < k /\ scans[i].state = "failed" /\ scans[k].state = "returned")
              => ScanIsFull(k)

PromptIsSourceThenBlocks(prompt, issue) ==
    /\ Len(prompt) = 2 + 2 * Len(issue.axeResults)
    /\ prompt[2] = Piece("content", issue.contentRaw.s)
    /\ \A v \in DOMAIN issue.axeResults :
          /\ prompt[2 * v + 1] = Piece("issue", issue.axeResults[v])
          /\ prompt[2 * v + 2] =
                Piece("description", Description(issue.axeResults[v]))

C13_RevalidationJudgesNewRendering ==
    /\ \A a \in DOMAIN applies :
          applies[a].state /= "noop" => applies[a].judged = applies[a].x
    /\ \A r \in axeRuns : r.config = ScanAxeConfig

\* C15: an applySuggestion call on a widget whose request is still pending,
\* or whose stored suggestion is the empty string, changes no cell's source,
\* starts no oracle run and leaves the widget in the panel's list.
C15_NoSuggestionNoApply ==
    [][(ApplyCalled /\ (widgets[NewApply.w].pending \/ NewApply.x = Str(""))) =>
          /\ NewApply.state = "noop"
          /\ doc' = doc
          /\ axeRuns' = axeRuns
          /\ widgets' = widgets
          /\ issuesContainer' = issuesContainer
          /\ InSeq(issuesContainer', NewApply.w)]_vars

\* Apply was clicked on a listed widget whose request is still pending,
\* while the cell at its index is there with its model: nothing was written.
C15_Witness ==
    \E a \in DOMAIN applies :
        LET wd == widgets[applies[a].w] IN
        /\ applies[a].state = "noop"
        /\ wd.pending /\ wd.suggestion = Str("")
        /\ InSeq(issuesContainer, applies[a].w)
        /\ wd.cellIndex + 1 \in DOMAIN doc[wd.notebook]
        /\ doc[wd.notebook][wd.cellIndex + 1].hasModel
        /\ doc[wd.notebook][wd.cellIndex + 1].source = wd.issue.contentRaw
        /\ axeRuns = {}

\* C16: every widget has sent one request, the one of its constructor; no
\* step, an apply or the completion of a re-validation included, sends
\* another, and once a widget's suggestion has arrived no step changes it.
C16_OneRequestPerWidget ==
    /\ [](\A w \in DOMAIN widgets : widgets[w].requests = 1)
    /\ [][\A w \in DOMAIN widgets :
             /\ widgets'[w].requests = widgets[w].requests
             /\ ~widgets[w].pending =>
                    /\ ~widgets'[w].pending
                    /\ widgets'[w].suggestion = widgets[w].suggestion]_vars

\* A re-validation has found violations again: the widget has still sent
\* one request and holds the suggestion that arrived.
C16_Witness ==
    \E a \in DOMAIN applies :
        LET wd == widgets[applies[a].w] IN
        /\ applies[a].state = "resolved" /\ applies[a].result /= <<>>
        /\ wd.requests = 1 /\ ~wd.pending /\ ~wd.disposed
        /\ wd.suggestion = Str("fix")

\* C17: every widget is bound to the notebook whose scan produced its issue,
\* so every apply that writes does so in the notebook that was scanned.
C17_WidgetBoundToScannedNotebook ==
    /\ \A w \in DOMAIN widgets : widgets[w].notebook = scans[widgets[w].scan].nb
    /\ \A a \in DOMAIN applies :
          applies[a].state /= "noop" =>
              applies[a].nb = scans[widgets[applies[a].w].scan].nb

\* C18: an apply that writes, made by a widget of a scan whose document
\* stayed as it was during the scan, writes into the cell that was at the
\* issue's index when the document was scanned, whatever cells were inserted
\* or deleted since.
C18_ApplyWritesTheScannedCell ==
    \A a \in DOMAIN applies :
        LET wd == widgets[applies[a].w]
            s == scans[wd.scan]
        IN (applies[a].state /= "noop" /\ ~s.edited /\ wd.notebook = s.nb) =>
               /\ wd.cellIndex + 1 \in DOMAIN s.docAtStart
               /\ applies[a].cell = s.docAtStart[wd.cellIndex + 1].id

\* C19: at most one axe.run call is in flight at any time, whatever the
\* order of the clicks on "Analyze Notebook" and on the Apply buttons.
C19_OneOracleRunAtATime == Cardinality(axeRuns) <= 1
====
